---- MODULE Spec2Model ----
(***************************************************************************)
(* Model of python/verify/verifyHyperbolicity.py:                          *)
(*   verify_logarithmic_gluing_equations_and_positively_oriented_tets      *)
(*   verify_hyperbolicity                                                  *)
(*                                                                         *)
(* Complex intervals are fixed-point boxes: centre (re, im) and half-width *)
(* rad, all in units of 1/1000.  A run is one call of one of the two       *)
(* functions; the loops of the verifier are unrolled one iteration per     *)
(* step.  The first call leaves verbose at its default, False; a finished *)
(* call may be followed by one second call on the same data with verbose  *)
(* the other way round or with one cusp's completion flag flipped.        *)
(***************************************************************************)
EXTENDS Integers, Sequences, FiniteSets, TLC

\* ------------------------------------------------------------------ bounds
MaxTet == 2
MaxCusps == 2
MaxEqs == 3

\* --------------------------------------------------------------- constants
\* the 0.1 of "abs(...) < 0.1", in units of 1/1000
TOL == 100
\* imaginary part of BaseField.pi() * BaseField(2j), in units of 1/1000
TWO_PI == 6283

VARIABLES manifold, entry, verbose, shape_intervals, pc, shape_pos, logs,
          LHSs, LHS_index, edge_index, cusp_index, j, output, ret, result,
          checked, solverCalls, verifierCalls, prev

vars == <<manifold, entry, verbose, shape_intervals, pc, shape_pos, logs,
          LHSs, LHS_index, edge_index, cusp_index, j, output, ret, result,
          checked, solverCalls, verifierCalls, prev>>

\* ------------------------------------------------------ interval arithmetic
CI(re, im, rad) == [re |-> re, im |-> im, rad |-> rad]

Abs(x) == IF x < 0 THEN -x ELSE x

\* Python's int 0: the start value of sum() and the target of a complete cusp
ZERO == CI(0, 0, 0)

TWO_PI_I == CI(0, TWO_PI, 0)

\* sample shapes: the regular ideal tetrahedron exp(i pi/3), the shape i
\* known less sharply, and a box around 3/2 that straddles the real axis
zReg == CI(500, 866, 1)
zI == CI(0, 1000, 10)
zWide == CI(1500, 0, 10)

ShapePool == {zReg, zI, zWide}

\* slip: accepts a shape whose enclosure only reaches above the real axis
ImagMaybePositive(shape) == shape.im + shape.rad > 0

\* shape.imag() > 0 on an interval: true only when the whole interval is > 0
ImagPositive(shape) == shape.im - shape.rad > 0

\* z.log()
LogZ(z) ==
  CASE z = zReg -> CI(0, 1047, 1)
    [] z = zI -> CI(0, 1571, 15)
    [] OTHER -> CI(405, 0, 3200)

\* (1 / (1 - z)).log()
LogZp(z) ==
  CASE z = zReg -> CI(0, 1047, 1)
    [] z = zI -> CI(-347, 785, 15)
    [] OTHER -> CI(693, 0, 3200)

\* ((z - 1) / z).log()
LogZpp(z) ==
  CASE z = zReg -> CI(0, 1047, 1)
    [] z = zI -> CI(347, 785, 15)
    [] OTHER -> CI(-1099, 0, 3200)

\* [ z for triple in zip(logZ, logZp, logZpp) for z in triple ]
Logs(shapes) ==
  [k \in 1..(3 * Len(shapes)) |->
     LET z == shapes[((k - 1) \div 3) + 1]
     IN  CASE (k - 1) % 3 = 0 -> LogZ(z)
           [] (k - 1) % 3 = 1 -> LogZp(z)
           [] OTHER -> LogZpp(z)]

Min(a, b) == IF a < b THEN a ELSE b

\* sum([l * expo for l, expo in zip(equation, logs)]); zip stops at the
\* shorter of the two lists
RECURSIVE SumZip(_, _, _)
SumZip(equation, lgs, k) ==
  IF k = 0 THEN ZERO
  ELSE LET s == SumZip(equation, lgs, k - 1)
           l == equation[k]
           e == lgs[k]
       IN  CI(s.re + l * e.re, s.im + l * e.im, s.rad + Abs(l) * e.rad)

LHSOf(equation, lgs) == SumZip(equation, lgs, Min(Len(equation), Len(lgs)))

AllLHSs(equations, lgs) ==
  [k \in 1..Len(equations) |-> LHSOf(equations[k], lgs)]

\* abs(lhs - value) < 0.1: the upper end of the modulus interval is below 0.1
AbsDiffLessTol(lhs, value) ==
  LET dre == Abs(lhs.re - value.re) + lhs.rad + value.rad
      dim == Abs(lhs.im - value.im) + lhs.rad + value.rad
  IN  dre * dre + dim * dim < TOL * TOL

\* slip: one equation for every cusp
CuspSpecOneEach(complete) == IF complete THEN <<1, ZERO>> ELSE <<1, TWO_PI_I>>

\* slip: a filled cusp checked against 0 as well
CuspSpecZeroTarget(complete) == IF complete THEN <<2, ZERO>> ELSE <<1, ZERO>>

\* (num_LHSs, value) of a cusp
CuspSpec(complete) == IF complete THEN <<2, ZERO>> ELSE <<1, TWO_PI_I>>

\* ------------------------------------------------------------------ inputs
SeqsUpTo(S, n) == UNION {[1..k -> S] : k \in 0..n}

\* coefficient vectors of length 3 * n: all zero; 1 on the three slots of the
\* first and again of the last tetrahedron; 4 on the first slot only
VecZero(n) == [k \in 1..(3 * n) |-> 0]

VecEnds(n) ==
  [k \in 1..(3 * n) |-> (IF k <= 3 THEN 1 ELSE 0) + (IF k > 3 * n - 3 THEN 1 ELSE 0)]

VecFirst(n) == [k \in 1..(3 * n) |-> IF k = 1 THEN 4 ELSE 0]

EquationPool(n) == {VecZero(n), VecEnds(n), VecFirst(n)}

NoResult == [kind |-> "none", certified |-> FALSE, shapes |-> <<>>]

Fault == [kind |-> "IndexError", certified |-> FALSE, shapes |-> <<>>]

Pair(c, s) == [kind |-> "pair", certified |-> c, shapes |-> s]

Bool(b) == [kind |-> "bool", certified |-> b, shapes |-> <<>>]

NoPrev == [kind |-> "none", verbose |-> FALSE, ret |-> "None",
           result |-> NoResult, output |-> <<>>, flipped |-> 0]

\* a check the verifier has evaluated: the loop it belongs to, the loop
\* indices, the index of the equation read (LHS_index) and the target
Check(kind, index, jj, eq, value) ==
  [kind |-> kind, index |-> index, j |-> jj, eq |-> eq, value |-> value]

\* print("Shape with non-positive imaginary part")
ShapeDiag == <<"Shape with non-positive imaginary part">>

\* print("Edge equation %d failed" % edge_index)
EdgeDiag(e) == <<"Edge equation failed", e>>

\* slip: the two indices in the wrong order
CuspDiagSwapped(jj, c) == <<"Equation for cusp failed", c, jj>>

\* print("Equation %d for cusp %d failed" % (j, cusp_index))
CuspDiag(jj, c) == <<"Equation for cusp failed", jj, c>>

\* print("Could not certify solution to rectangular gluing equations")
SolverDiag == <<"Could not certify solution to rectangular gluing equations">>

\* if verbose: print(msg)
Emit(out, v, msg) == IF v THEN Append(out, msg) ELSE out

\* state of a call that has not started
Fresh ==
  /\ shape_pos = 1
  /\ logs = <<>>
  /\ LHSs = <<>>
  /\ LHS_index = 0
  /\ edge_index = 0
  /\ cusp_index = 0
  /\ j = 0
  /\ output = <<>>
  /\ ret = "None"
  /\ result = NoResult
  /\ checked = <<>>
  /\ solverCalls = 0

Init ==
  /\ \E n \in 0..MaxTet :
       \E cs \in SeqsUpTo(BOOLEAN, MaxCusps) :
         \E eqs \in SeqsUpTo(EquationPool(n), MaxEqs) :
           \E ok \in BOOLEAN :
             \E sh \in [1..n -> ShapePool] :
               /\ manifold = [n_tet |-> n, cusps |-> cs, equations |-> eqs,
                              rect |-> [ok |-> ok, shapes |-> IF ok THEN sh ELSE <<>>]]
               /\ \/ entry = "verify_hyperbolicity" /\ shape_intervals = <<>>
                     /\ pc = "solve" /\ verifierCalls = 0
                  \/ ok /\ entry = "verify_logarithmic" /\ shape_intervals = sh
                     /\ pc = "orient" /\ verifierCalls = 1
  /\ verbose = FALSE
  /\ prev = NoPrev
  /\ Fresh

\* slip: the except branch lacks its return and falls through to the verifier
CallSolverNoReturn ==
  /\ pc = "solve"
  /\ solverCalls' = solverCalls + 1
  /\ shape_intervals' = manifold.rect.shapes
  /\ pc' = "orient"
  /\ verifierCalls' = verifierCalls + 1
  /\ output' = IF manifold.rect.ok THEN output ELSE Emit(output, verbose, SolverDiag)
  /\ UNCHANGED <<manifold, entry, verbose, shape_pos, logs, LHSs, LHS_index,
                 edge_index, cusp_index, j, ret, result, checked, prev>>

\* ----------------------------------------------------- verify_hyperbolicity
\* try: manifold.tetrahedra_shapes('rect', ...) except: ... return False, []
CallSolver ==
  /\ pc = "solve"
  /\ solverCalls' = solverCalls + 1
  /\ IF manifold.rect.ok
     THEN /\ shape_intervals' = manifold.rect.shapes
          /\ pc' = "orient"
          /\ verifierCalls' = verifierCalls + 1
          /\ UNCHANGED <<output, result>>
     ELSE /\ output' = Emit(output, verbose, SolverDiag)
          /\ result' = Pair(FALSE, <<>>)
          /\ pc' = "done"
          /\ UNCHANGED <<shape_intervals, verifierCalls>>
  /\ UNCHANGED <<manifold, entry, verbose, shape_pos, logs, LHSs, LHS_index,
                 edge_index, cusp_index, j, ret, checked, prev>>

\* --------- verify_logarithmic_gluing_equations_and_positively_oriented_tets
\* one iteration of "for shape in shape_intervals"
CheckShape ==
  /\ pc = "orient"
  /\ shape_pos <= Len(shape_intervals)
  /\ checked' = Append(checked, Check("shape", shape_pos - 1, 0, -1, ZERO))
  /\ IF ~ImagPositive(shape_intervals[shape_pos])
     THEN /\ output' = Emit(output, verbose, ShapeDiag)
          /\ ret' = "False"
          /\ pc' = "return"
          /\ UNCHANGED shape_pos
     ELSE /\ shape_pos' = shape_pos + 1
          /\ UNCHANGED <<output, ret, pc>>
  /\ UNCHANGED <<manifold, entry, verbose, shape_intervals, logs, LHSs,
                 LHS_index, edge_index, cusp_index, j, result, solverCalls,
                 verifierCalls, prev>>

\* the logarithms, the left-hand sides, BaseField = shape_intervals[0].parent()
\* and the start of the edge loop
ComputeLHSs ==
  /\ pc = "orient"
  /\ shape_pos > Len(shape_intervals)
  /\ logs' = Logs(shape_intervals)
  /\ LHSs' = AllLHSs(manifold.equations, Logs(shape_intervals))
  /\ LHS_index' = 0
  /\ IF Len(shape_intervals) = 0
     THEN ret' = "IndexError" /\ pc' = "return"
     ELSE /\ ret' = ret
          /\ pc' = IF manifold.n_tet > 0 THEN "edge" ELSE "cusp"
  /\ UNCHANGED <<manifold, entry, verbose, shape_intervals, shape_pos,
                 edge_index, cusp_index, j, output, result, checked,
                 solverCalls, verifierCalls, prev>>

\* slip: "return False" indented under "if verbose:"
CheckEdgeReturnUnderVerbose ==
  /\ pc = "edge"
  /\ edge_index < manifold.n_tet
  /\ IF LHS_index >= Len(LHSs)
     THEN /\ ret' = "IndexError"
          /\ pc' = "return"
          /\ UNCHANGED <<output, LHS_index, edge_index, checked>>
     ELSE /\ checked' = Append(checked, Check("edge", edge_index, 0, LHS_index, TWO_PI_I))
          /\ IF ~AbsDiffLessTol(LHSs[LHS_index + 1], TWO_PI_I) /\ verbose
             THEN /\ output' = Emit(output, verbose, EdgeDiag(edge_index))
                  /\ ret' = "False"
                  /\ pc' = "return"
                  /\ UNCHANGED <<LHS_index, edge_index>>
             ELSE /\ LHS_index' = LHS_index + 1
                  /\ edge_index' = edge_index + 1
                  /\ pc' = IF edge_index + 1 < manifold.n_tet THEN "edge" ELSE "cusp"
                  /\ UNCHANGED <<output, ret>>
  /\ UNCHANGED <<manifold, entry, verbose, shape_intervals, shape_pos, logs,
                 LHSs, cusp_index, j, result, solverCalls, verifierCalls, prev>>

\* one iteration of "for edge_index in range(n_tet)"
CheckEdge ==
  /\ pc = "edge"
  /\ edge_index < manifold.n_tet
  /\ IF LHS_index >= Len(LHSs)
     THEN /\ ret' = "IndexError"
          /\ pc' = "return"
          /\ UNCHANGED <<output, LHS_index, edge_index, checked>>
     ELSE /\ checked' = Append(checked, Check("edge", edge_index, 0, LHS_index, TWO_PI_I))
          /\ IF ~AbsDiffLessTol(LHSs[LHS_index + 1], TWO_PI_I)
             THEN /\ output' = Emit(output, verbose, EdgeDiag(edge_index))
                  /\ ret' = "False"
                  /\ pc' = "return"
                  /\ UNCHANGED <<LHS_index, edge_index>>
             ELSE /\ LHS_index' = LHS_index + 1
                  /\ edge_index' = edge_index + 1
                  /\ pc' = IF edge_index + 1 < manifold.n_tet THEN "edge" ELSE "cusp"
                  /\ UNCHANGED <<output, ret>>
  /\ UNCHANGED <<manifold, entry, verbose, shape_intervals, shape_pos, logs,
                 LHSs, cusp_index, j, result, solverCalls, verifierCalls, prev>>

\* one iteration of "for j in range(num_LHSs)" inside
\* "for cusp_index in range(n_cusps)"
CheckCusp ==
  /\ pc = "cusp"
  /\ cusp_index < Len(manifold.cusps)
  /\ LET spec == CuspSpec(manifold.cusps[cusp_index + 1])
         num_LHSs == spec[1]
         value == spec[2]
     IN  IF LHS_index >= Len(LHSs)
         THEN /\ ret' = "IndexError"
              /\ pc' = "return"
              /\ UNCHANGED <<output, LHS_index, cusp_index, j, checked>>
         ELSE /\ checked' = Append(checked, Check("cusp", cusp_index, j, LHS_index, value))
              /\ IF ~AbsDiffLessTol(LHSs[LHS_index + 1], value)
                 THEN /\ output' = Emit(output, verbose, CuspDiag(j, cusp_index))
                      /\ ret' = "False"
                      /\ pc' = "return"
                      /\ UNCHANGED <<LHS_index, cusp_index, j>>
                 ELSE /\ LHS_index' = LHS_index + 1
                      /\ IF j + 1 < num_LHSs
                         THEN j' = j + 1 /\ cusp_index' = cusp_index
                         ELSE j' = 0 /\ cusp_index' = cusp_index + 1
                      /\ UNCHANGED <<output, ret, pc>>
  /\ UNCHANGED <<manifold, entry, verbose, shape_intervals, shape_pos, logs,
                 LHSs, edge_index, result, solverCalls, verifierCalls, prev>>

\* the final "return True"
ReturnTrue ==
  /\ pc = "cusp"
  /\ cusp_index >= Len(manifold.cusps)
  /\ ret' = "True"
  /\ pc' = "return"
  /\ UNCHANGED <<manifold, entry, verbose, shape_intervals, shape_pos, logs,
                 LHSs, LHS_index, edge_index, cusp_index, j, output, result,
                 checked, solverCalls, verifierCalls, prev>>

\* slip: the shapes handed back with a failed verification
PackageLeaky(r, shapes) ==
  CASE r = "True" -> Pair(TRUE, shapes)
    [] r = "False" -> Pair(FALSE, shapes)
    [] OTHER -> Fault

\* what verify_hyperbolicity makes of the verifier's outcome
Package(r, shapes) ==
  CASE r = "True" -> Pair(TRUE, shapes)
    [] r = "False" -> Pair(FALSE, <<>>)
    [] OTHER -> Fault

\* the verifier hands its outcome to its caller
Return ==
  /\ pc = "return"
  /\ result' = IF entry = "verify_hyperbolicity"
               THEN Package(ret, shape_intervals)
               ELSE IF ret = "IndexError" THEN Fault ELSE Bool(ret = "True")
  /\ pc' = "done"
  /\ UNCHANGED <<manifold, entry, verbose, shape_intervals, shape_pos, logs,
                 LHSs, LHS_index, edge_index, cusp_index, j, output, ret,
                 checked, solverCalls, verifierCalls, prev>>

\* ----------------------------------------------------------- second calls
Summary(kind, k) ==
  [kind |-> kind, verbose |-> verbose, ret |-> ret, result |-> result,
   output |-> output, flipped |-> k]

Restart ==
  /\ shape_pos' = 1
  /\ logs' = <<>>
  /\ LHSs' = <<>>
  /\ LHS_index' = 0
  /\ edge_index' = 0
  /\ cusp_index' = 0
  /\ j' = 0
  /\ output' = <<>>
  /\ ret' = "None"
  /\ result' = NoResult
  /\ checked' = <<>>
  /\ solverCalls' = 0

\* the same call on the same data with verbose the other way round
CallAgainOtherVerbose ==
  /\ pc = "done"
  /\ prev.kind = "none"
  /\ prev' = Summary("verbose", 0)
  /\ verbose' = ~verbose
  /\ Restart
  /\ IF entry = "verify_hyperbolicity"
     THEN pc' = "solve" /\ shape_intervals' = <<>> /\ verifierCalls' = 0
     ELSE pc' = "orient" /\ shape_intervals' = shape_intervals /\ verifierCalls' = 1
  /\ UNCHANGED <<manifold, entry>>

\* the verifier called again on the shapes and equations of a call it
\* accepted, with the completion flag of one cusp flipped
CallAgainCuspFlipped ==
  /\ pc = "done"
  /\ prev.kind = "none"
  /\ ret = "True"
  /\ \E k \in 1..Len(manifold.cusps) :
       /\ prev' = Summary("flip", k)
       /\ manifold' = [manifold EXCEPT !.cusps[k] = ~manifold.cusps[k]]
  /\ entry' = "verify_logarithmic"
  /\ Restart
  /\ pc' = "orient"
  /\ verifierCalls' = 1
  /\ UNCHANGED <<verbose, shape_intervals>>

Next ==
  \/ CallSolver
  \/ CheckShape
  \/ ComputeLHSs
  \/ CheckEdge
  \/ CheckCusp
  \/ ReturnTrue
  \/ Return
  \/ CallAgainOtherVerbose
  \/ CallAgainCuspFlipped

Spec == Init /\ [][Next]_vars

\* ------------------------------------------------------ what the claims use
\* equations a cusp contributes and the value they must reach
Width(complete) == IF complete THEN 2 ELSE 1

Target(complete) == IF complete THEN CI(0, 0, 0) ELSE CI(0, 6283, 0)

\* equations contributed by the first k cusps
RECURSIVE Offset(_)
Offset(k) == IF k = 0 THEN 0 ELSE Offset(k - 1) + Width(manifold.cusps[k])

ExpectedCount == manifold.n_tet + Offset(Len(manifold.cusps))

\* the cusp (from 0) that owns the q-th cusp equation (from 1)
CuspOfPos(q) ==
  CHOOSE c \in 0..(Len(manifold.cusps) - 1) : Offset(c) < q /\ q <= Offset(c + 1)

\* the whole enclosure lies within 0.1 of the target
Near(lhs, target) ==
  LET a == (IF lhs.re < target.re THEN target.re - lhs.re ELSE lhs.re - target.re) + lhs.rad
      b == (IF lhs.im < target.im THEN target.im - lhs.im ELSE lhs.im - target.im) + lhs.rad
  IN  a * a + b * b < 10000

AboveRealAxis(shape) == shape.im - shape.rad > 0

SomeShapeNotPositive ==
  \E i \in 1..Len(shape_intervals) : ~AboveRealAxis(shape_intervals[i])

VerifierFinished == pc = "done" /\ verifierCalls = 1

\* the p-th check (from 1) of the fixed order: shapes, edges, cusp equations
ExpectedCheck(p) ==
  LET nS == Len(shape_intervals)
      nT == manifold.n_tet
  IN  IF p <= nS THEN [kind |-> "shape", index |-> p - 1, j |-> 0, eq |-> -1,
                       value |-> CI(0, 0, 0)]
      ELSE IF p <= nS + nT
      THEN [kind |-> "edge", index |-> p - nS - 1, j |-> 0, eq |-> p - nS - 1,
            value |-> CI(0, 6283, 0)]
      ELSE LET q == p - nS - nT
               c == CuspOfPos(q)
           IN  [kind |-> "cusp", index |-> c, j |-> q - 1 - Offset(c),
                eq |-> nT + q - 1, value |-> Target(manifold.cusps[c + 1])]

CheckFails(c) ==
  IF c.kind = "shape"
  THEN ~AboveRealAxis(shape_intervals[c.index + 1])
  ELSE ~Near(LHSs[c.eq + 1], c.value)

DiagFor(c) ==
  CASE c.kind = "shape" -> <<"Shape with non-positive imaginary part">>
    [] c.kind = "edge" -> <<"Edge equation failed", c.index>>
    [] OTHER -> <<"Equation for cusp failed", c.j, c.index>>

EquationChecks == SelectSeq(checked, LAMBDA c : c.kind # "shape")

\* ------------------------------------------------------------------ claims
\* C1: on an equation list of exactly the expected length the verifier
\* returns true if and only if every shape lies above the real axis, each of
\* the first n_tet equations is within 0.1 of 2 pi i and every cusp equation
\* is within 0.1 of its target.
C1_TrueIffAllChecksPass ==
  (VerifierFinished /\ Len(manifold.equations) = ExpectedCount)
    => ((ret = "True") <=>
          /\ ~SomeShapeNotPositive
          /\ \A e \in 1..manifold.n_tet : Near(LHSs[e], CI(0, 6283, 0))
          /\ \A q \in 1..Offset(Len(manifold.cusps)) :
               Near(LHSs[manifold.n_tet + q],
                    Target(manifold.cusps[CuspOfPos(q) + 1])))

\* C2: a result of verify_hyperbolicity is a pair whose shape list is
\* non-empty exactly when it is certified, is then the solver's list, and is
\* (false, []) whenever the solver failed or the verifier returned false.
C2_PairAllOrNothing ==
  (pc = "done" /\ entry = "verify_hyperbolicity")
    => /\ result.kind = "pair"
            => /\ (result.shapes # <<>>) <=> result.certified
               /\ result.certified
                    => manifold.rect.ok /\ result.shapes = manifold.rect.shapes
       /\ (~manifold.rect.ok \/ ret = "False") => result = Pair(FALSE, <<>>)

C2_Witness ==
  /\ pc = "done"
  /\ entry = "verify_hyperbolicity"
  /\ result.kind = "pair"
  /\ result.certified
  /\ Len(result.shapes) = 2

\* C3: when the length of the equation list differs from the expected count
\* the verifier raises a fault and returns neither true nor false.
C3_LengthMismatchFaults ==
  (VerifierFinished /\ Len(manifold.equations) # ExpectedCount)
    => ret = "IndexError"

\* C4: with a shape that is not strictly above the real axis the verifier
\* returns false without computing a logarithm or a left-hand side, without
\* checking an equation, and with no diagnostic but the one about shapes.
C4_OrientationFirst ==
  (verifierCalls = 1 /\ SomeShapeNotPositive)
    => /\ logs = <<>>
       /\ LHSs = <<>>
       /\ LHS_index = 0
       /\ \A p \in 1..Len(checked) : checked[p].kind = "shape"
       /\ \A p \in 1..Len(output) :
            output[p] = <<"Shape with non-positive imaginary part">>
       /\ Len(output) <= 1
       /\ ret \in {"None", "False"}
       /\ pc \in {"orient", "return", "done"}
       /\ pc \in {"return", "done"}
            => /\ ret = "False"
               /\ ~AboveRealAxis(shape_intervals[Len(checked)])
       /\ pc = "done" => result \in {Pair(FALSE, <<>>), Bool(FALSE)}

C4_Witness ==
  /\ pc = "done"
  /\ verifierCalls = 1
  /\ verbose
  /\ Len(shape_intervals) = 2
  /\ AboveRealAxis(shape_intervals[1])
  /\ ~AboveRealAxis(shape_intervals[2])
  /\ Len(manifold.equations) = 3
  /\ Len(manifold.cusps) = 1
  /\ output = <<ShapeDiag>>

\* C5: the cusp phase starts with the cursor at n_tet; a complete cusp reads
\* the next two equations against 0 and a filled cusp the next one against
\* 2 pi i, so at cusp k the cursor is n_tet plus the contributions of the
\* cusps before k, and the equations are read once each, in order.
C5_CursorDiscipline ==
  /\ \A i \in 1..Len(EquationChecks) : EquationChecks[i].eq = i - 1
  /\ \A p \in 1..Len(checked) :
       checked[p].kind = "cusp"
         => LET c == checked[p]
            IN  /\ c.index < Len(manifold.cusps)
                /\ c.j < Width(manifold.cusps[c.index + 1])
                /\ c.eq = manifold.n_tet + Offset(c.index) + c.j
                /\ c.value = Target(manifold.cusps[c.index + 1])
  /\ pc = "cusp"
       => /\ cusp_index <= Len(manifold.cusps)
          /\ LHS_index = manifold.n_tet + Offset(cusp_index) + j
          /\ cusp_index < Len(manifold.cusps)
               => j < Width(manifold.cusps[cusp_index + 1])
          /\ cusp_index = Len(manifold.cusps) => j = 0
  /\ pc \in {"edge", "cusp"} => LHS_index = Len(EquationChecks)

C5_Witness ==
  /\ pc = "cusp"
  /\ manifold.cusps = <<FALSE, FALSE>>
  /\ cusp_index = 2
  /\ LHS_index = manifold.n_tet + 2

\* C6: when the solver fails verify_hyperbolicity returns (false, []) having
\* called the solver once and the verifier not at all.
C6_SolverFailureShortCircuits ==
  /\ solverCalls <= 1
  /\ (entry = "verify_hyperbolicity" /\ ~manifold.rect.ok /\ pc # "solve")
       => /\ pc = "done"
          /\ result = Pair(FALSE, <<>>)
          /\ solverCalls = 1
          /\ verifierCalls = 0
          /\ ret = "None"
          /\ checked = <<>>
          /\ logs = <<>>

C6_Witness ==
  /\ entry = "verify_hyperbolicity"
  /\ ~manifold.rect.ok
  /\ pc = "done"
  /\ manifold.n_tet = 2

\* C7: after the verifier returned true, the same shapes and equations with
\* the completion flag of one cusp flipped make it return false.
C7_FlippedCuspFails ==
  (prev.kind = "flip" /\ pc = "done") => (prev.ret = "True" /\ ret = "False")

C7_Witness ==
  /\ prev.kind = "flip"
  /\ pc = "done"
  /\ Len(manifold.cusps) = 2
  /\ prev.flipped = 1
  /\ manifold.cusps[1]

\* C8: the same call with verbose on and with verbose off returns the same
\* result, and a call that returns true prints nothing.
C8_VerboseIsAdvisory ==
  /\ (prev.kind = "verbose" /\ pc = "done")
       => /\ verbose # prev.verbose
          /\ result = prev.result
          /\ ret = prev.ret
  /\ ret = "True" => output = <<>>
  /\ (pc = "done" /\ result.certified) => output = <<>>

C8_Witness ==
  /\ prev.kind = "verbose"
  /\ pc = "done"
  /\ ret = "False"
  /\ prev.output = <<>>
  /\ output = <<EdgeDiag(1)>>

\* C9: the checks run in the fixed order shapes, edges, cusp equations; the
\* verifier stops at the first one that fails, and with verbose on prints
\* exactly the diagnostic of that check with its indices.
C9_FirstFailureStops ==
  /\ \A p \in 1..Len(checked) : checked[p] = ExpectedCheck(p)
  /\ \A p \in 1..(Len(checked) - 1) : ~CheckFails(checked[p])
  /\ ret = "True" => \A p \in 1..Len(checked) : ~CheckFails(checked[p])
  /\ ret = "False"
       => /\ Len(checked) >= 1
          /\ CheckFails(checked[Len(checked)])
          /\ verbose => output = <<DiagFor(checked[Len(checked)])>>

C9_Witness ==
  /\ pc = "done"
  /\ ret = "False"
  /\ verbose
  /\ Len(checked) >= 1
  /\ checked[Len(checked)].kind = "cusp"
  /\ checked[Len(checked)].j = 1
  /\ output = <<<<"Equation for cusp failed", 1, 0>>>>

\* C10: on well-formed input (any tetrahedron count from 0, one shape per
\* tetrahedron, an equation list of the expected length) the verifier
\* returns a boolean and raises no fault, so verify_hyperbolicity yields
\* (true, shapes) or (false, []).
C10_WellFormedNeverFaults ==
  (/\ VerifierFinished
   /\ Len(shape_intervals) = manifold.n_tet
   /\ Len(manifold.equations) = ExpectedCount)
    => /\ ret \in {"True", "False"}
       /\ result.kind # "IndexError"
       /\ entry = "verify_hyperbolicity"
            => result \in {Pair(TRUE, shape_intervals), Pair(FALSE, <<>>)}

====
